---- MODULE Spec2Model ----
(***************************************************************************)
(* Workflow Builder: the normalized tree model (domain/workflowModel.js),  *)
(* the pure workflow reducer and the undo/redo history reducer             *)
(* (state/workflowReducer.js), as dispatched through useWorkflowState.     *)
(*                                                                         *)
(* Node ids are the naturals 1..; JavaScript null is Null (0, falsy).      *)
(* Labels are sequences of one-character strings.  A node is a record      *)
(* [id, type, label, parentId, children] and a branch node has the extra   *)
(* field exits = [true |-> id or Null, false |-> id or Null].              *)
(* A workflow is [nodes, rootId] where nodes is a function from the set    *)
(* of ids present to node records.                                         *)
(***************************************************************************)
EXTENDS Integers, Sequences, FiniteSets, TLC

VARIABLES state, idCounter, menu, editor

vars == <<state, idCounter, menu, editor>>

(* ------------------------------ bounds --------------------------------- *)

\* ids the generator may hand out: 1..MaxIds
MaxIds == 5

\* Spec takes edit requests while past and future together hold fewer than
\* MaxHistory snapshots
MaxHistory == 2

\* SpecTree takes edit requests while past holds fewer than MaxEdits snapshots
MaxEdits == 4

(* --------------------------- domain model ------------------------------ *)

Null == 0

NODE_TYPES == [start |-> "start", action |-> "action", branch |-> "branch", end |-> "end"]

BRANCH_EXIT_KEYS == <<"true", "false">>

\* ConnectionSlot: null | 'true' | 'false'
SlotNull == "null"

ConnectionSlots == {SlotNull, "true", "false"}

ACTION_TYPES == [ADD_NODE |-> "ADD_NODE", DELETE_NODE |-> "DELETE_NODE",
            UPDATE_NODE_LABEL |-> "UPDATE_NODE_LABEL", UNDO |-> "UNDO", REDO |-> "REDO"]

\* variant: a call returns the id the previous call returned
createIdRepeated(handedOut) == IF handedOut = 0 THEN 1 ELSE handedOut

\* crypto.randomUUID(): a value never returned before; the call made after
\* `handedOut` earlier calls returns handedOut + 1
createId(handedOut) == handedOut + 1

defaultLabelForType(type) ==
  CASE type = NODE_TYPES.start  -> <<"S", "t", "a", "r", "t">>
    [] type = NODE_TYPES.action -> <<"A", "c", "t", "i", "o", "n">>
    [] type = NODE_TYPES.branch -> <<"B", "r", "a", "n", "c", "h">>
    [] type = NODE_TYPES.end    -> <<"E", "n", "d">>
    [] OTHER                    -> <<"N", "o", "d", "e">>

\* Array.prototype.filter(Boolean) on a sequence of ids
FilterBoolean(seq) == SelectSeq(seq, LAMBDA v : v # Null)

\* variant: a branch node keeps the `children` it was given
normalizeNodeKeepChildren(node) ==
  IF node.type # NODE_TYPES.branch
  THEN [node EXCEPT !.children = SubSeq(node.children, 1, IF Len(node.children) > 1 THEN 1 ELSE Len(node.children))]
  ELSE [node EXCEPT !.exits = [true |-> node.exits["true"], false |-> node.exits["false"]]]

normalizeNode(node) ==
  IF node.type # NODE_TYPES.branch
  THEN [node EXCEPT !.children = SubSeq(node.children, 1, IF Len(node.children) > 1 THEN 1 ELSE Len(node.children))]
  ELSE LET exits == [true |-> node.exits["true"], false |-> node.exits["false"]]
           children == FilterBoolean([i \in 1..Len(BRANCH_EXIT_KEYS) |-> exits[BRANCH_EXIT_KEYS[i]]])
       IN  [node EXCEPT !.exits = exits, !.children = children]

\* label is a set: {} when the caller passes no label, {l} when it passes l;
\* handedOut is the number of ids the generator has handed out before the call
createNode(type, parentId, label, handedOut) ==
  LET text == IF label = {} THEN defaultLabelForType(type) ELSE CHOOSE l \in label : TRUE
      base == [id |-> createId(handedOut), type |-> type, label |-> text, parentId |-> parentId, children |-> <<>>]
  IN  IF type = NODE_TYPES.branch
      THEN normalizeNode([id |-> base.id, type |-> type, label |-> text, parentId |-> parentId,
                          children |-> <<>>, exits |-> [true |-> Null, false |-> Null]])
      ELSE normalizeNode(base)

createInitialWorkflow ==
  LET start == createNode(NODE_TYPES.start, Null, {<<"S", "t", "a", "r", "t">>}, 0)
  IN  [nodes |-> [i \in {start.id} |-> start], rootId |-> start.id]

\* variant: a branch node is always read at its true exit
getOutgoingChildIdTrueExit(node, slot) ==
  IF node.type # NODE_TYPES.branch
  THEN IF Len(node.children) > 0 THEN node.children[1] ELSE Null
  ELSE node.exits["true"]

getOutgoingChildId(node, slot) ==
  IF node.type # NODE_TYPES.branch
  THEN IF Len(node.children) > 0 THEN node.children[1] ELSE Null
  ELSE LET key == IF slot = SlotNull THEN "true" ELSE slot
       IN  node.exits[key]

\* variant: a null slot on a branch node writes the false exit
setOutgoingChildIdNullFalse(node, slot, childId) ==
  IF node.type # NODE_TYPES.branch
  THEN normalizeNode([node EXCEPT !.children = IF childId # Null THEN <<childId>> ELSE <<>>])
  ELSE LET key == IF slot = SlotNull THEN "false" ELSE slot
       IN  normalizeNode([node EXCEPT !.exits = [node.exits EXCEPT ![key] = childId]])

\* variant: a request to clear a slot keeps the old successor
setOutgoingChildIdKeepOnClear(node, slot, childId) ==
  IF childId = Null THEN node
  ELSE IF node.type # NODE_TYPES.branch
  THEN normalizeNode([node EXCEPT !.children = <<childId>>])
  ELSE LET key == IF slot = SlotNull THEN "true" ELSE slot
       IN  normalizeNode([node EXCEPT !.exits = [node.exits EXCEPT ![key] = childId]])

\* variant: on a branch node the successor is always written to the true exit
setOutgoingChildIdTrueExit(node, slot, childId) ==
  IF node.type # NODE_TYPES.branch
  THEN normalizeNode([node EXCEPT !.children = IF childId # Null THEN <<childId>> ELSE <<>>])
  ELSE normalizeNode([node EXCEPT !.exits = [node.exits EXCEPT !["true"] = childId]])

\* variant: clearing one exit of a branch node clears both
setOutgoingChildIdClearBoth(node, slot, childId) ==
  IF node.type # NODE_TYPES.branch
  THEN normalizeNode([node EXCEPT !.children = IF childId # Null THEN <<childId>> ELSE <<>>])
  ELSE IF childId = Null
  THEN normalizeNode([node EXCEPT !.exits = [true |-> Null, false |-> Null]])
  ELSE LET key == IF slot = SlotNull THEN "true" ELSE slot
       IN  normalizeNode([node EXCEPT !.exits = [node.exits EXCEPT ![key] = childId]])

setOutgoingChildId(node, slot, childId) ==
  IF node.type # NODE_TYPES.branch
  THEN normalizeNode([node EXCEPT !.children = IF childId # Null THEN <<childId>> ELSE <<>>])
  ELSE LET key == IF slot = SlotNull THEN "true" ELSE slot
       IN  normalizeNode([node EXCEPT !.exits = [node.exits EXCEPT ![key] = childId]])

(* ------------------------------ reducer -------------------------------- *)

RECURSIVE collectLoop(_, _, _)
collectLoop(workflow, stack, visited) ==
  IF Len(stack) = 0 THEN visited
  ELSE LET id   == stack[Len(stack)]
           rest == SubSeq(stack, 1, Len(stack) - 1)
       IN  IF id = Null \/ id \in visited THEN collectLoop(workflow, rest, visited)
           ELSE IF id \notin DOMAIN workflow.nodes THEN collectLoop(workflow, rest, visited \cup {id})
           ELSE collectLoop(workflow, rest \o FilterBoolean(workflow.nodes[id].children), visited \cup {id})

\* variant: the traversal stops at the orphan root and misses its descendants
collectSubtreeIdsRootOnly(workflow, rootId) == IF rootId = Null THEN {} ELSE {rootId}

collectSubtreeIds(workflow, rootId) == collectLoop(workflow, <<rootId>>, {})

\* variant: the lookup does not test the false exit
findSlotForChildTrueOnly(parent, childId) ==
  IF parent.type = NODE_TYPES.branch THEN "true" ELSE SlotNull

\* variant: the lookup answers with the other exit of a branch node
findSlotForChildSwapped(parent, childId) ==
  IF parent.type = NODE_TYPES.branch
  THEN IF parent.exits["true"] = childId THEN "false"
       ELSE IF parent.exits["false"] = childId THEN "true"
       ELSE "true"
  ELSE SlotNull

findSlotForChild(parent, childId) ==
  IF parent.type = NODE_TYPES.branch
  THEN IF parent.exits["true"] = childId THEN "true"
       ELSE IF parent.exits["false"] = childId THEN "false"
       ELSE "true"
  ELSE SlotNull

\* The result of a reducer call: `workflow` is the returned value and
\* `identical` tells whether it is the very object passed in (JavaScript ===).
Same(workflow) == [identical |-> TRUE, workflow |-> workflow]

Fresh(workflow) == [identical |-> FALSE, workflow |-> workflow]

reduceAddNode(workflow, action) ==
  LET parentId == action.parentId
      slot     == action.slot
      newType  == action.nodeType
  IN  IF parentId = Null THEN Same(workflow)
      ELSE IF parentId \notin DOMAIN workflow.nodes THEN Same(workflow)
      ELSE LET parent == workflow.nodes[parentId] IN
      IF parent.type = NODE_TYPES.end THEN Same(workflow)
      ELSE LET existingChildId == getOutgoingChildId(parent, slot)
               inserted        == createNode(newType, parentId, {}, idCounter)
               insertedUpdated ==
                 IF existingChildId # Null
                 THEN IF inserted.type = NODE_TYPES.branch
                      THEN setOutgoingChildId(inserted, "true", existingChildId)
                      ELSE IF inserted.type # NODE_TYPES.end
                           THEN setOutgoingChildId(inserted, SlotNull, existingChildId)
                           ELSE inserted
                 ELSE inserted
               updatedParent == setOutgoingChildId(parent, slot, insertedUpdated.id)
               nextNodes ==
                 [i \in DOMAIN workflow.nodes \cup {updatedParent.id, insertedUpdated.id} |->
                    IF i = insertedUpdated.id THEN insertedUpdated
                    ELSE IF i = updatedParent.id THEN updatedParent
                    ELSE workflow.nodes[i]]
               reparented ==
                 IF existingChildId # Null /\ existingChildId \in DOMAIN nextNodes
                 THEN [nextNodes EXCEPT ![existingChildId].parentId = insertedUpdated.id]
                 ELSE nextNodes
           IN  Fresh([workflow EXCEPT !.nodes = reparented])

IsSpace(c) == c = " "

RECURSIVE TrimStart(_)
TrimStart(s) == IF Len(s) > 0 /\ IsSpace(s[1]) THEN TrimStart(Tail(s)) ELSE s

RECURSIVE TrimEnd(_)
TrimEnd(s) == IF Len(s) > 0 /\ IsSpace(s[Len(s)]) THEN TrimEnd(SubSeq(s, 1, Len(s) - 1)) ELSE s

\* String.prototype.trim
Trim(s) == TrimEnd(TrimStart(s))

\* variant: the label is stored as typed, without trimming
reduceUpdateNodeLabelUntrimmed(workflow, action) ==
  LET nodeId == action.nodeId
      label  == action.label
  IN  IF nodeId = Null THEN Same(workflow)
      ELSE IF nodeId \notin DOMAIN workflow.nodes THEN Same(workflow)
      ELSE LET node == workflow.nodes[nodeId]
           IN  Fresh([workflow EXCEPT !.nodes =
                        [workflow.nodes EXCEPT ![nodeId] =
                           [node EXCEPT !.label = IF Len(Trim(label)) > 0 THEN label ELSE node.label]]])

reduceUpdateNodeLabel(workflow, action) ==
  LET nodeId == action.nodeId
      label  == Trim(action.label)
  IN  IF nodeId = Null THEN Same(workflow)
      ELSE IF nodeId \notin DOMAIN workflow.nodes THEN Same(workflow)
      ELSE LET node == workflow.nodes[nodeId]
           IN  Fresh([workflow EXCEPT !.nodes =
                        [workflow.nodes EXCEPT ![nodeId] =
                           [node EXCEPT !.label = IF Len(label) > 0 THEN label ELSE node.label]]])

\* variant: the false exit is preferred over the true exit
preferredReconnectChildIdFalseFirst(node) ==
  IF node.type = NODE_TYPES.branch
  THEN IF node.exits["false"] # Null THEN node.exits["false"]
       ELSE IF node.exits["true"] # Null THEN node.exits["true"]
       ELSE Null
  ELSE IF Len(node.children) > 0 THEN node.children[1] ELSE Null

\* the child of the deleted node that takes its place
preferredReconnectChildId(node) ==
  IF node.type = NODE_TYPES.branch
  THEN IF node.exits["true"] # Null THEN node.exits["true"]
       ELSE IF node.exits["false"] # Null THEN node.exits["false"]
       ELSE Null
  ELSE IF Len(node.children) > 0 THEN node.children[1] ELSE Null

\* variant: a node whose parent is missing is removed instead of kept
reduceDeleteNodeDropParentless(workflow, action) ==
  LET nodeId == action.nodeId
  IN  IF nodeId = Null THEN Same(workflow)
      ELSE IF nodeId \notin DOMAIN workflow.nodes THEN Same(workflow)
      ELSE LET node == workflow.nodes[nodeId] IN
      IF nodeId = workflow.rootId \/ node.type = NODE_TYPES.start THEN Same(workflow)
      ELSE IF node.parentId = Null THEN Same(workflow)
      ELSE IF node.parentId \notin DOMAIN workflow.nodes
      THEN Fresh([workflow EXCEPT !.nodes = [i \in DOMAIN workflow.nodes \ {nodeId} |-> workflow.nodes[i]]])
      ELSE LET parent == workflow.nodes[node.parentId]
               parentSlot == findSlotForChild(parent, nodeId)
               reconnectChildId == preferredReconnectChildId(node)
               updatedParent == setOutgoingChildId(parent, parentSlot, reconnectChildId)
               nextNodes == [workflow.nodes EXCEPT ![updatedParent.id] = updatedParent]
               reparented ==
                 IF reconnectChildId # Null /\ reconnectChildId \in DOMAIN nextNodes
                 THEN [nextNodes EXCEPT ![reconnectChildId].parentId = updatedParent.id]
                 ELSE nextNodes
               trueId  == IF node.type = NODE_TYPES.branch THEN node.exits["true"] ELSE Null
               falseId == IF node.type = NODE_TYPES.branch THEN node.exits["false"] ELSE Null
               orphanRoots ==
                 IF node.type = NODE_TYPES.branch
                 THEN (IF reconnectChildId = trueId /\ falseId # Null THEN {falseId} ELSE {})
                      \cup (IF reconnectChildId = falseId /\ trueId # Null THEN {trueId} ELSE {})
                 ELSE {}
               idsToDelete ==
                 {nodeId} \cup UNION {collectSubtreeIds(workflow, orphanRootId) : orphanRootId \in orphanRoots}
           IN  Fresh([workflow EXCEPT !.nodes = [i \in DOMAIN reparented \ idsToDelete |-> reparented[i]]])

reduceDeleteNode(workflow, action) ==
  LET nodeId == action.nodeId
  IN  IF nodeId = Null THEN Same(workflow)
      ELSE IF nodeId \notin DOMAIN workflow.nodes THEN Same(workflow)
      ELSE LET node == workflow.nodes[nodeId] IN
      IF nodeId = workflow.rootId \/ node.type = NODE_TYPES.start THEN Same(workflow)
      ELSE IF node.parentId = Null THEN Same(workflow)
      ELSE IF node.parentId \notin DOMAIN workflow.nodes THEN Same(workflow)
      ELSE LET parent == workflow.nodes[node.parentId]
               parentSlot == findSlotForChild(parent, nodeId)
               reconnectChildId == preferredReconnectChildId(node)
               updatedParent == setOutgoingChildId(parent, parentSlot, reconnectChildId)
               nextNodes == [workflow.nodes EXCEPT ![updatedParent.id] = updatedParent]
               reparented ==
                 IF reconnectChildId # Null /\ reconnectChildId \in DOMAIN nextNodes
                 THEN [nextNodes EXCEPT ![reconnectChildId].parentId = updatedParent.id]
                 ELSE nextNodes
               trueId  == IF node.type = NODE_TYPES.branch THEN node.exits["true"] ELSE Null
               falseId == IF node.type = NODE_TYPES.branch THEN node.exits["false"] ELSE Null
               orphanRoots ==
                 IF node.type = NODE_TYPES.branch
                 THEN (IF reconnectChildId = trueId /\ falseId # Null THEN {falseId} ELSE {})
                      \cup (IF reconnectChildId = falseId /\ trueId # Null THEN {trueId} ELSE {})
                 ELSE {}
               idsToDelete ==
                 {nodeId} \cup UNION {collectSubtreeIds(workflow, orphanRootId) : orphanRootId \in orphanRoots}
           IN  Fresh([workflow EXCEPT !.nodes = [i \in DOMAIN reparented \ idsToDelete |-> reparented[i]]])

workflowReducer(workflow, action) ==
  CASE action.type = ACTION_TYPES.ADD_NODE          -> reduceAddNode(workflow, action)
    [] action.type = ACTION_TYPES.UPDATE_NODE_LABEL -> reduceUpdateNodeLabel(workflow, action)
    [] action.type = ACTION_TYPES.DELETE_NODE       -> reduceDeleteNode(workflow, action)
    [] OTHER                                   -> Same(workflow)

(* ------------------------------ history -------------------------------- *)

createInitialHistoryState == [past |-> <<>>, present |-> createInitialWorkflow, future |-> <<>>]

\* variant: undo restores the oldest snapshot of `past` instead of the newest
reduceUndoOldest(st) ==
  IF Len(st.past) = 0 THEN st
  ELSE [past    |-> SubSeq(st.past, 1, Len(st.past) - 1),
        present |-> st.past[1],
        future  |-> <<st.present>> \o st.future]

\* variant: undo puts the old present at the end of `future`
reduceUndoAppendFuture(st) ==
  IF Len(st.past) = 0 THEN st
  ELSE [past    |-> SubSeq(st.past, 1, Len(st.past) - 1),
        present |-> st.past[Len(st.past)],
        future  |-> Append(st.future, st.present)]

reduceUndo(st) ==
  IF Len(st.past) = 0 THEN st
  ELSE [past    |-> SubSeq(st.past, 1, Len(st.past) - 1),
        present |-> st.past[Len(st.past)],
        future  |-> <<st.present>> \o st.future]

\* variant: redo puts the old present at the front of `past`
reduceRedoPrepend(st) ==
  IF Len(st.future) = 0 THEN st
  ELSE [past    |-> <<st.present>> \o st.past,
        present |-> st.future[1],
        future  |-> Tail(st.future)]

reduceRedo(st) ==
  IF Len(st.future) = 0 THEN st
  ELSE [past    |-> Append(st.past, st.present),
        present |-> st.future[1],
        future  |-> Tail(st.future)]

\* variant: an accepted edit keeps the redo stack
reduceEditKeepFuture(st, action) ==
  LET nextPresent == workflowReducer(st.present, action)
  IN  IF nextPresent.identical THEN st
      ELSE [past |-> Append(st.past, st.present), present |-> nextPresent.workflow, future |-> st.future]

\* variant: the result of the engine is recorded without the identity test
reduceEditAlwaysPush(st, action) ==
  LET nextPresent == workflowReducer(st.present, action)
  IN  [past |-> Append(st.past, st.present), present |-> nextPresent.workflow, future |-> <<>>]

\* variant: an accepted edit puts the old present at the front of `past`
reduceEditPrepend(st, action) ==
  LET nextPresent == workflowReducer(st.present, action)
  IN  IF nextPresent.identical THEN st
      ELSE [past |-> <<st.present>> \o st.past, present |-> nextPresent.workflow, future |-> <<>>]

\* variant: an accepted edit records its result, not the old present, in `past`
reduceEditPushResult(st, action) ==
  LET nextPresent == workflowReducer(st.present, action)
  IN  IF nextPresent.identical THEN st
      ELSE [past |-> Append(st.past, nextPresent.workflow), present |-> nextPresent.workflow, future |-> <<>>]

reduceEdit(st, action) ==
  LET nextPresent == workflowReducer(st.present, action)
  IN  IF nextPresent.identical THEN st
      ELSE [past |-> Append(st.past, st.present), present |-> nextPresent.workflow, future |-> <<>>]

workflowHistoryReducer(st, action) ==
  CASE action.type = ACTION_TYPES.UNDO -> reduceUndo(st)
    [] action.type = ACTION_TYPES.REDO -> reduceRedo(st)
    [] action.type \in {ACTION_TYPES.ADD_NODE, ACTION_TYPES.DELETE_NODE, ACTION_TYPES.UPDATE_NODE_LABEL} ->
         reduceEdit(st, action)
    [] OTHER -> st

\* the api object of useWorkflowState for the history state st
useWorkflowState(st) ==
  [workflow |-> st.present, canUndo |-> Len(st.past) > 0, canRedo |-> Len(st.future) > 0]

(* ------------------------------ requests ------------------------------- *)

AddAction(parentId, slot, nodeType) ==
  [type |-> ACTION_TYPES.ADD_NODE, parentId |-> parentId, slot |-> slot, nodeType |-> nodeType]

DeleteAction(nodeId) == [type |-> ACTION_TYPES.DELETE_NODE, nodeId |-> nodeId]

LabelAction(nodeId, label) == [type |-> ACTION_TYPES.UPDATE_NODE_LABEL, nodeId |-> nodeId, label |-> label]

UndoAction == [type |-> ACTION_TYPES.UNDO]

RedoAction == [type |-> ACTION_TYPES.REDO]

\* ids a request may name: null and 1..MaxIds, of which some name no node
IdInputs == 0..MaxIds

\* variant: the menu offers every kind of node
InsertTypesAll == {NODE_TYPES.start, NODE_TYPES.action, NODE_TYPES.branch, NODE_TYPES.end}

\* the node menu offers action, branch and end
InsertTypes == {NODE_TYPES.action, NODE_TYPES.branch, NODE_TYPES.end}

LabelInputs == {<<>>, <<" ">>, <<"x">>, <<" ", "x", " ">>}

\* createNode runs, and consumes an id, exactly when ADD_NODE passes its guards
ConsumesId(action) ==
  action.type = ACTION_TYPES.ADD_NODE /\ ~workflowReducer(state.present, action).identical

Dispatch(action) ==
  /\ state' = workflowHistoryReducer(state, action)
  /\ idCounter' = IF ConsumesId(action) THEN idCounter + 1 ELSE idCounter

\* the add-node menu of WorkflowCanvas before it is first opened
InitialMenu == [open |-> FALSE, parentId |-> Null, slot |-> SlotNull]

\* a NodeEditor that is not editing
IdleEditor == [editing |-> FALSE, nodeId |-> Null, draft |-> <<>>]

Init ==
  /\ idCounter = 1
  /\ state = createInitialHistoryState
  /\ menu = InitialMenu
  /\ editor = IdleEditor

\* An edit request is taken while the history holds fewer than `limit`
\* snapshots besides `present`, and an insert that creates a node while the
\* generator has an id left.
HistorySize == Len(state.past) + Len(state.future)

InsertWithin(limit) ==
  \E parentId \in IdInputs, slot \in ConnectionSlots, nodeType \in InsertTypes :
    LET action == AddAction(parentId, slot, nodeType)
    IN  /\ HistorySize < limit
        /\ ConsumesId(action) => idCounter < MaxIds
        /\ Dispatch(action)
        /\ UNCHANGED <<menu, editor>>

DeleteWithin(limit) ==
  \E nodeId \in IdInputs :
    /\ HistorySize < limit
    /\ Dispatch(DeleteAction(nodeId))
    /\ UNCHANGED <<menu, editor>>

Insert == InsertWithin(MaxHistory)

Delete == DeleteWithin(MaxHistory)

UpdateLabel ==
  \E nodeId \in IdInputs, label \in LabelInputs :
    /\ HistorySize < MaxHistory
    /\ Dispatch(LabelAction(nodeId, label))
    /\ UNCHANGED <<menu, editor>>

Undo == Dispatch(UndoAction) /\ UNCHANGED <<menu, editor>>

Redo == Dispatch(RedoAction) /\ UNCHANGED <<menu, editor>>

Next == Insert \/ Delete \/ UpdateLabel \/ Undo \/ Redo

Spec == Init /\ [][Next]_vars

\* Insert and Delete requests only, to a greater depth
TreeInsert == InsertWithin(MaxEdits)

TreeDelete == DeleteWithin(MaxEdits)

NextTree == TreeInsert \/ TreeDelete

SpecTree == Init /\ [][NextTree]_vars

(* ------------------------- auxiliary notions -------------------------- *)

Last(seq) == seq[Len(seq)]

SeqToSet(seq) == {seq[i] : i \in 1..Len(seq)}

\* every snapshot the history holds
Snapshots(st) == SeqToSet(st.past) \cup {st.present} \cup SeqToSet(st.future)

ChildIds(w, id) == IF id \in DOMAIN w.nodes THEN SeqToSet(w.nodes[id].children) ELSE {}

RECURSIVE Closure(_, _)
Closure(w, ids) ==
  LET next == ids \cup UNION {ChildIds(w, id) : id \in ids}
  IN  IF next = ids THEN ids ELSE Closure(w, next)

\* the ids reachable from `id` by following `children`, `id` included
Descendants(w, id) == Closure(w, {id})

AllReachable(w) == DOMAIN w.nodes \subseteq Descendants(w, w.rootId)

NoSharedChild(w) ==
  \A a, b \in DOMAIN w.nodes : a # b => ChildIds(w, a) \cap ChildIds(w, b) = {}

(* ------------------------------- canvas -------------------------------- *)
(* WorkflowCanvas: the add-node menu, the buttons and the window's keydown  *)
(* and pointerdown listeners.  The menu's x and y only position the popup   *)
(* and are left out.                                                        *)

closeMenu(m) == [m EXCEPT !.open = FALSE, !.parentId = Null]

\* the menu state set by openMenuAtEvent for a port of node parentId
openMenuAtEvent(parentId, slot) == [open |-> TRUE, parentId |-> parentId, slot |-> slot]

getAvailableSlots(node) ==
  IF node.type = NODE_TYPES.branch THEN SeqToSet(BRANCH_EXIT_KEYS)
  ELSE IF node.type = NODE_TYPES.end THEN {}
  ELSE {SlotNull}

\* the nodes renderTree draws: those reached from the root
RenderedIds(w) == Descendants(w, w.rootId) \cap DOMAIN w.nodes

\* key presses: e.key with the modifier flags of the event
Keys == {"Escape", "z", "Z", "y", "a"}

KeyEvents == [key : Keys, ctrlKey : BOOLEAN, metaKey : BOOLEAN, shiftKey : BOOLEAN]

toLowerCase(key) == IF key = "Z" THEN "z" ELSE IF key = "Escape" THEN "escape" ELSE key

\* The keydown listener for event e on a platform that is (isMac) or is not
\* macOS: the menu it leaves and the requests it dispatches, in order.
onKeyDown(m, api, e, isMac) ==
  IF ~m.open THEN [menu |-> m, requests |-> <<>>]
  ELSE LET mod == IF isMac THEN e.metaKey ELSE e.ctrlKey
           onZ == IF mod /\ toLowerCase(e.key) = "z"
                  THEN IF e.shiftKey
                       THEN (IF api.canRedo THEN <<RedoAction>> ELSE <<>>)
                       ELSE (IF api.canUndo THEN <<UndoAction>> ELSE <<>>)
                  ELSE <<>>
           onY == IF mod /\ toLowerCase(e.key) = "y"
                  THEN (IF api.canRedo THEN <<RedoAction>> ELSE <<>>)
                  ELSE <<>>
       IN  [menu     |-> IF e.key = "Escape" THEN closeMenu(m) ELSE m,
            requests |-> onZ \o onY]

\* the window's pointerdown listener
onPointerDown(m) == IF m.open THEN closeMenu(m) ELSE m

RECURSIVE DispatchAll(_, _)
DispatchAll(st, requests) ==
  IF requests = <<>> THEN st
  ELSE DispatchAll(workflowHistoryReducer(st, requests[1]), Tail(requests))

\* pointerdown on an out port of a rendered node
OpenMenu ==
  \E parentId \in RenderedIds(state.present) :
    \E slot \in getAvailableSlots(state.present.nodes[parentId]) :
      /\ menu' = openMenuAtEvent(parentId, slot)
      /\ UNCHANGED <<state, idCounter, editor>>

\* a click on Action, Branch or End in the open menu
PickType ==
  \E nodeType \in InsertTypes :
    LET action == AddAction(menu.parentId, menu.slot, nodeType)
    IN  /\ menu.open
        /\ HistorySize < MaxHistory
        /\ ConsumesId(action) => idCounter < MaxIds
        /\ IF menu.parentId = Null
           THEN UNCHANGED vars
           ELSE Dispatch(action) /\ menu' = closeMenu(menu) /\ UNCHANGED editor

\* a click on the menu's close button
CloseButton ==
  /\ menu.open
  /\ menu' = closeMenu(menu)
  /\ UNCHANGED <<state, idCounter, editor>>

\* a pointerdown that reaches the window: outside the canvas content
PointerDown ==
  /\ menu' = onPointerDown(menu)
  /\ UNCHANGED <<state, idCounter, editor>>

\* a click on the Delete button of a rendered node that is not locked
ClickDelete ==
  \E nodeId \in RenderedIds(state.present) :
    /\ nodeId # state.present.rootId
    /\ state.present.nodes[nodeId].type # NODE_TYPES.start
    /\ HistorySize < MaxHistory
    /\ Dispatch(DeleteAction(nodeId))
    /\ UNCHANGED <<menu, editor>>

\* a click on the Undo button of the control bar, which lies outside the
\* canvas content: its pointerdown reaches the window first
ClickUndo ==
  /\ useWorkflowState(state).canUndo
  /\ menu' = onPointerDown(menu)
  /\ Dispatch(UndoAction)
  /\ UNCHANGED editor

ClickRedo ==
  /\ useWorkflowState(state).canRedo
  /\ menu' = onPointerDown(menu)
  /\ Dispatch(RedoAction)
  /\ UNCHANGED editor

\* a key press
KeyDown ==
  \E e \in KeyEvents, isMac \in BOOLEAN :
    LET handled == onKeyDown(menu, useWorkflowState(state), e, isMac)
    IN  /\ menu' = handled.menu
        /\ state' = DispatchAll(state, handled.requests)
        /\ UNCHANGED <<idCounter, editor>>

NextCanvas ==
  OpenMenu \/ PickType \/ CloseButton \/ PointerDown \/ ClickDelete \/ ClickUndo \/ ClickRedo \/ KeyDown

SpecCanvas == Init /\ [][NextCanvas]_vars

(* ------------------------------- editor -------------------------------- *)
(* NodeEditor: the inline label editor of a node.  While an editor is not   *)
(* editing, its draft follows the node's label (the effect on value and     *)
(* editing), so one record stands for the editors of all nodes: the node    *)
(* being edited, if any, and the draft typed for it.                        *)

\* the label shown by the editor of node nodeId
EditorValue(st, nodeId) == st.present.nodes[nodeId].label

\* onDoubleClick of the label button of node nodeId
onDoubleClick(st, nodeId) == [editing |-> TRUE, nodeId |-> nodeId, draft |-> EditorValue(st, nodeId)]

\* variant: commit does not compare the draft with the label shown
commitAlways(ed, value) ==
  LET next == Trim(ed.draft)
  IN  [editor   |-> IdleEditor,
       requests |-> IF Len(next) > 0
                    THEN <<LabelAction(ed.nodeId, next)>>
                    ELSE <<>>]

\* commit(): the editor it leaves and the requests onCommit dispatches
commit(ed, value) ==
  LET next == Trim(ed.draft)
  IN  [editor   |-> IdleEditor,
       requests |-> IF Len(next) > 0 /\ next # value
                    THEN <<LabelAction(ed.nodeId, next)>>
                    ELSE <<>>]

cancel(ed, value) == [editor |-> IdleEditor, requests |-> <<>>]

\* keys pressed in the input, without modifiers
InputKeys == {"Enter", "Escape", "a"}

\* onKeyDown of the input
onInputKeyDown(ed, value, key) ==
  IF key = "Enter" THEN commit(ed, value)
  ELSE IF key = "Escape" THEN cancel(ed, value)
  ELSE [editor |-> ed, requests |-> <<>>]

\* text the user may leave in the input
DraftInputs == LabelInputs

\* the key press as the window's keydown listener sees it
PlainKey(key) == [key |-> key, ctrlKey |-> FALSE, metaKey |-> FALSE, shiftKey |-> FALSE]

\* a handler's requests are dispatched while the history bound leaves room
Room(requests) == requests # <<>> => HistorySize < MaxHistory

DoubleClick ==
  \E nodeId \in RenderedIds(state.present) :
    /\ ~editor.editing
    /\ editor' = onDoubleClick(state, nodeId)
    /\ UNCHANGED <<state, idCounter, menu>>

\* onChange of the input
ChangeDraft ==
  \E draft \in DraftInputs :
    /\ editor.editing
    /\ editor' = [editor EXCEPT !.draft = draft]
    /\ UNCHANGED <<state, idCounter, menu>>

\* a key press in the input, which the window's keydown listener sees too
InputKeyDown ==
  \E key \in InputKeys :
    LET handled == onInputKeyDown(editor, EditorValue(state, editor.nodeId), key)
    IN  /\ editor.editing
        /\ Room(handled.requests)
        /\ editor' = handled.editor
        /\ state' = DispatchAll(state, handled.requests)
        /\ menu' = onKeyDown(menu, useWorkflowState(state), PlainKey(key), FALSE).menu
        /\ UNCHANGED idCounter

\* the input loses focus
Blur ==
  LET handled == commit(editor, EditorValue(state, editor.nodeId))
  IN  /\ editor.editing
      /\ Room(handled.requests)
      /\ editor' = handled.editor
      /\ state' = DispatchAll(state, handled.requests)
      /\ UNCHANGED <<idCounter, menu>>

\* the add-node menu used while no label is being edited
IdleOpenMenu == ~editor.editing /\ OpenMenu

IdlePickType == ~editor.editing /\ PickType

IdleCloseButton == ~editor.editing /\ CloseButton

NextEditor ==
  DoubleClick \/ ChangeDraft \/ InputKeyDown \/ Blur \/ IdleOpenMenu \/ IdlePickType \/ IdleCloseButton

SpecEditor == Init /\ [][NextEditor]_vars

(* ------------------------------- claims -------------------------------- *)

\* C1: in every workflow reached by Insert and Delete requests from the
\* initial single-start workflow, every node of `nodes` is reachable from
\* rootId by following `children`, and no id is a child of two nodes.
C1_TreeInvariant == AllReachable(state.present) /\ NoSharedChild(state.present)

\* every non-root node has a parentId naming a node that lists it in `children`
ParentLists(w) ==
  \A id \in DOMAIN w.nodes \ {w.rootId} :
    /\ w.nodes[id].parentId \in DOMAIN w.nodes
    /\ id \in ChildIds(w, w.nodes[id].parentId)

\* C2: from a workflow whose nodes are all reachable from rootId and whose
\* non-root nodes are all listed by their parents, Delete(nodeId) for any
\* nodeId yields a workflow whose remaining nodes are all reachable from
\* rootId, and a node that was deleted is absent from `nodes`.
C2_DeletePreservesReachability ==
  LET w == state.present
  IN  (AllReachable(w) /\ ParentLists(w)) =>
        \A nodeId \in IdInputs :
          LET r == workflowReducer(w, DeleteAction(nodeId))
          IN  /\ AllReachable(r.workflow)
              /\ ~r.identical => nodeId \notin DOMAIN r.workflow.nodes

\* the last edit deleted a branch node with both exits from such a workflow,
\* which pruned the node in its false exit
C2_Witness ==
  /\ Len(state.past) > 0
  /\ LET w == Last(state.past)
     IN  /\ AllReachable(w) /\ ParentLists(w)
         /\ \E nodeId \in DOMAIN w.nodes :
              /\ w.nodes[nodeId].type = NODE_TYPES.branch
              /\ w.nodes[nodeId].exits["true"] # Null
              /\ w.nodes[nodeId].exits["false"] # Null
              /\ w.nodes[nodeId].exits["false"] \notin DOMAIN state.present.nodes
              /\ ~workflowReducer(w, DeleteAction(nodeId)).identical
              /\ state.present = workflowReducer(w, DeleteAction(nodeId)).workflow

\* [exits.true, exits.false] with the absent entries removed
ExitList(node) ==
  (IF node.exits["true"] # Null THEN <<node.exits["true"]>> ELSE <<>>)
    \o (IF node.exits["false"] # Null THEN <<node.exits["false"]>> ELSE <<>>)

BranchProjection(w) ==
  \A id \in DOMAIN w.nodes :
    w.nodes[id].type = NODE_TYPES.branch => w.nodes[id].children = ExitList(w.nodes[id])

EditActions ==
  {AddAction(parentId, slot, nodeType) :
     parentId \in IdInputs, slot \in ConnectionSlots, nodeType \in InsertTypes}
  \cup {DeleteAction(nodeId) : nodeId \in IdInputs}
  \cup {LabelAction(nodeId, label) : nodeId \in IdInputs, label \in LabelInputs}

\* the engine returns a new workflow for the request
Accepted(st, action) == ~workflowReducer(st.present, action).identical

\* C4: for any accepted edit E, Undo right after E makes `present` the
\* pre-E present, and Redo right after that Undo makes `present` the
\* post-E workflow.
C4_UndoRedoRoundTrip ==
  \A action \in EditActions :
    Accepted(state, action) =>
      LET edited == workflowHistoryReducer(state, action)
          undone == workflowHistoryReducer(edited, UndoAction)
          redone == workflowHistoryReducer(undone, RedoAction)
      IN  /\ undone.present = state.present
          /\ redone.present = edited.present

\* an accepted Delete or UpdateLabel has just been undone, with older
\* snapshots still in `past`: redo would restore its result
C4_Witness ==
  /\ Len(state.past) > 0
  /\ Len(state.future) > 0
  /\ \E action \in EditActions :
       /\ action.type # ACTION_TYPES.ADD_NODE
       /\ Accepted(state, action)
       /\ workflowReducer(state.present, action).workflow = state.future[1]
       /\ state.future[1] # state.present

\* C5: after an Undo followed by an accepted edit, `future` is empty and
\* canRedo is false.
C5_RedoInvalidation ==
  Len(state.past) > 0 =>
    LET undone == workflowHistoryReducer(state, UndoAction)
    IN  \A action \in EditActions :
          Accepted(undone, action) =>
            LET edited == workflowHistoryReducer(undone, action)
            IN  /\ edited.future = <<>>
                /\ ~useWorkflowState(edited).canRedo

\* an id that was handed out is in no snapshot any more: the insert that
\* created it was undone and a later edit dropped it from the redo stack
C5_Witness ==
  /\ Len(state.past) > 0
  /\ state.future = <<>>
  /\ ~useWorkflowState(state).canRedo
  /\ \E id \in 1..idCounter : \A w \in Snapshots(state) : id \notin DOMAIN w.nodes

\* C6: UpdateLabel on an existing node with a label that is empty after
\* trimming leaves present, past and future unchanged.
C6_RejectedLabelNoOp ==
  \A nodeId \in DOMAIN state.present.nodes, label \in LabelInputs :
    Trim(label) = <<>> => workflowHistoryReducer(state, LabelAction(nodeId, label)) = state

ValidTree(w) == AllReachable(w) /\ NoSharedChild(w) /\ ParentLists(w)

SoleChild(node) == IF Len(node.children) > 0 THEN node.children[1] ELSE Null

\* the successor that node p holds in the slot which pointed at id d in w
\* (its single slot, or the exit that named d), read in workflow v
SlotValueAfter(w, v, p, d) ==
  IF w.nodes[p].type = NODE_TYPES.branch
  THEN IF w.nodes[p].exits["true"] = d THEN v.nodes[p].exits["true"] ELSE v.nodes[p].exits["false"]
  ELSE SoleChild(v.nodes[p])

\* node d of w is a non-root action or end node
SingleSuccessorNode(w, d) ==
  /\ d \in DOMAIN w.nodes \ {w.rootId}
  /\ w.nodes[d].type \in {NODE_TYPES.action, NODE_TYPES.end}

DeleteReconnects(w, d, v) ==
  LET p == w.nodes[d].parentId
      c == SoleChild(w.nodes[d])
  IN  /\ d \notin DOMAIN v.nodes
      /\ DOMAIN v.nodes = DOMAIN w.nodes \ {d}
      /\ SlotValueAfter(w, v, p, d) = c
      /\ c # Null => v.nodes[c].parentId = p

\* C7: in a valid tree, Delete of a non-root action or end node D with
\* parent P removes D and no other node, sets the slot of P that pointed
\* at D to D's sole child C (absent when D has none) and sets C.parentId
\* to P.
C7_DeleteReconnect ==
  LET w == state.present
  IN  ValidTree(w) =>
        \A d \in DOMAIN w.nodes :
          SingleSuccessorNode(w, d) =>
            /\ Accepted(state, DeleteAction(d))
            /\ DeleteReconnects(w, d, workflowReducer(w, DeleteAction(d)).workflow)

\* the last edit deleted an action node that had a child and sat in the
\* false exit of a branch node
C7_Witness ==
  /\ Len(state.past) > 0
  /\ LET w == Last(state.past)
     IN  /\ ValidTree(w)
         /\ \E d \in DOMAIN w.nodes :
              /\ SingleSuccessorNode(w, d)
              /\ SoleChild(w.nodes[d]) # Null
              /\ w.nodes[w.nodes[d].parentId].type = NODE_TYPES.branch
              /\ w.nodes[w.nodes[d].parentId].exits["false"] = d
              /\ state.present = workflowReducer(w, DeleteAction(d)).workflow
              /\ DeleteReconnects(w, d, state.present)

\* node b of w is a branch node whose parentId names a node of w
BranchWithParent(w, b) ==
  /\ b \in DOMAIN w.nodes \ {w.rootId}
  /\ w.nodes[b].type = NODE_TYPES.branch
  /\ w.nodes[b].parentId \in DOMAIN w.nodes

BranchDeletePrunes(w, b, v) ==
  LET t == w.nodes[b].exits["true"]
      f == w.nodes[b].exits["false"]
      promoted == IF t # Null THEN t ELSE f
  IN  /\ SlotValueAfter(w, v, w.nodes[b].parentId, b) = promoted
      /\ (t # Null /\ f # Null) =>
            /\ ({b} \cup Descendants(w, f)) \cap DOMAIN v.nodes = {}
            /\ Descendants(w, t) \cap DOMAIN w.nodes \subseteq DOMAIN v.nodes
      /\ (t = Null \/ f = Null) => DOMAIN v.nodes = DOMAIN w.nodes \ {b}

\* C8: Delete of a branch node B with parent P puts B's true exit, or else
\* its false exit, into P's slot; with both exits present B and the whole
\* false-exit subtree leave `nodes` and the whole true-exit subtree stays;
\* with at most one exit present only B leaves.
C8_BranchDeletePruning ==
  LET w == state.present
  IN  \A b \in DOMAIN w.nodes :
        BranchWithParent(w, b) =>
          /\ Accepted(state, DeleteAction(b))
          /\ BranchDeletePrunes(w, b, workflowReducer(w, DeleteAction(b)).workflow)

\* the last edit deleted a branch node that had both exits, a branch node
\* in its true exit and an action node in its false exit
C8_Witness ==
  /\ Len(state.past) > 0
  /\ LET w == Last(state.past)
     IN  \E b \in DOMAIN w.nodes :
           /\ BranchWithParent(w, b)
           /\ w.nodes[b].exits["true"] # Null
           /\ w.nodes[b].exits["false"] # Null
           /\ w.nodes[w.nodes[b].exits["true"]].type = NODE_TYPES.branch
           /\ w.nodes[w.nodes[b].exits["false"]].type = NODE_TYPES.action
           /\ state.present = workflowReducer(w, DeleteAction(b)).workflow
           /\ BranchDeletePrunes(w, b, state.present)

\* the exit of a branch parent that a request's slot selects
ExitKey(slot) == IF slot = SlotNull THEN "true" ELSE slot

\* the successor node p of w holds in the slot
SlotValue(w, p, slot) ==
  IF w.nodes[p].type = NODE_TYPES.branch THEN w.nodes[p].exits[ExitKey(slot)]
  ELSE SoleChild(w.nodes[p])

\* v is w with a node n of the given kind spliced in at the slot of p
InsertSplices(w, p, slot, kind, n, v) ==
  LET c == SlotValue(w, p, slot)
  IN  /\ n \notin DOMAIN w.nodes
      /\ DOMAIN v.nodes = DOMAIN w.nodes \cup {n}
      /\ SlotValue(v, p, slot) = n
      /\ v.nodes[n].type = kind
      /\ v.nodes[n].parentId = p
      /\ c # Null =>
            /\ v.nodes[c].parentId = n
            /\ kind = NODE_TYPES.action => v.nodes[n].children = <<c>>
            /\ kind = NODE_TYPES.branch =>
                  /\ v.nodes[n].exits = [true |-> c, false |-> Null]
                  /\ v.nodes[n].children = <<c>>
      /\ c = Null =>
            /\ v.nodes[n].children = <<>>
            /\ kind = NODE_TYPES.branch => v.nodes[n].exits = [true |-> Null, false |-> Null]
      /\ \A id \in DOMAIN w.nodes \ {p, c} : v.nodes[id] = w.nodes[id]

\* C9: Insert of an action or branch node N at a slot of parent P that
\* points at child C makes the slot point at N, N.parentId = P,
\* C.parentId = N and C the single successor of N (action) or its true
\* exit with the false exit absent (branch); at an empty slot N gets no
\* successor.  No node other than P, N and C changes, none is removed.
C9_InsertSplice ==
  LET w == state.present
  IN  \A p \in DOMAIN w.nodes, slot \in ConnectionSlots, kind \in {NODE_TYPES.action, NODE_TYPES.branch} :
        w.nodes[p].type # NODE_TYPES.end =>
          /\ Accepted(state, AddAction(p, slot, kind))
          /\ InsertSplices(w, p, slot, kind, createId(idCounter),
                           workflowReducer(w, AddAction(p, slot, kind)).workflow)

\* the last edit spliced a branch node in front of the child in the false
\* exit of a branch parent
C9_Witness ==
  /\ Len(state.past) > 0
  /\ LET w == Last(state.past)
     IN  \E p \in DOMAIN w.nodes :
           /\ w.nodes[p].type = NODE_TYPES.branch
           /\ w.nodes[p].exits["true"] # Null
           /\ w.nodes[p].exits["false"] # Null
           /\ InsertSplices(w, p, "false", NODE_TYPES.branch, idCounter, state.present)

\* the parentId names no node of w, or a node of kind end
NoInsertParent(w, parentId) ==
  parentId \notin DOMAIN w.nodes \/ w.nodes[parentId].type = NODE_TYPES.end

\* C10: an Insert whose parentId names no node of `present`, or a node of
\* kind end, returns the same workflow, and the history reducer leaves
\* past, present and future unchanged.
C10_InsertRejection ==
  \A parentId \in IdInputs, slot \in ConnectionSlots, nodeType \in InsertTypes :
    NoInsertParent(state.present, parentId) =>
      LET action == AddAction(parentId, slot, nodeType)
      IN  /\ workflowReducer(state.present, action).identical
          /\ workflowReducer(state.present, action).workflow = state.present
          /\ workflowHistoryReducer(state, action) = state

\* `present` holds an end node while past and future are both non-empty,
\* and an Insert under that end node returns the history state itself
C10_Witness ==
  /\ Len(state.past) > 0
  /\ Len(state.future) > 0
  /\ \E parentId \in DOMAIN state.present.nodes :
       /\ state.present.nodes[parentId].type = NODE_TYPES.end
       /\ workflowHistoryReducer(state, AddAction(parentId, SlotNull, NODE_TYPES.action)) = state

\* the Delete request names no node of w, the root, a start node, a node
\* with a null parentId or a node whose parentId names no node of w
NoDeleteTarget(w, nodeId) ==
  \/ nodeId \notin DOMAIN w.nodes
  \/ nodeId = w.rootId
  \/ w.nodes[nodeId].type = NODE_TYPES.start
  \/ w.nodes[nodeId].parentId = Null
  \/ w.nodes[nodeId].parentId \notin DOMAIN w.nodes

\* C11: a Delete whose nodeId is unknown, is the root, is of kind start,
\* has a null parentId or a parentId naming no node returns the same
\* workflow and leaves past, present and future unchanged.
C11_DeleteRejection ==
  \A nodeId \in IdInputs :
    NoDeleteTarget(state.present, nodeId) =>
      /\ workflowReducer(state.present, DeleteAction(nodeId)).identical
      /\ workflowReducer(state.present, DeleteAction(nodeId)).workflow = state.present
      /\ workflowHistoryReducer(state, DeleteAction(nodeId)) = state

\* after some edits `present` holds a non-root node whose parentId names a
\* node that is gone, and a Delete of it returns the history state itself
C11_Witness ==
  /\ Len(state.past) > 0
  /\ \E nodeId \in DOMAIN state.present.nodes \ {state.present.rootId} :
       /\ state.present.nodes[nodeId].parentId # Null
       /\ state.present.nodes[nodeId].parentId \notin DOMAIN state.present.nodes
       /\ workflowHistoryReducer(state, DeleteAction(nodeId)) = state

\* the slot does not fit the kind of node p of w: null on a branch node, or
\* "true"/"false" on a start or action node
WrongSlot(w, p, slot) ==
  \/ w.nodes[p].type = NODE_TYPES.branch /\ slot = SlotNull
  \/ w.nodes[p].type \in {NODE_TYPES.start, NODE_TYPES.action} /\ slot # SlotNull

\* the slot of node p of w that a request with a wrong slot acts on
FittingSlot(w, p) == IF w.nodes[p].type = NODE_TYPES.branch THEN "true" ELSE SlotNull

\* C12 as stated: an Insert whose slot does not fit the parent's kind leaves
\* present, past and future unchanged.
C12_WrongSlotNoOp ==
  \A p \in DOMAIN state.present.nodes, slot \in ConnectionSlots, nodeType \in InsertTypes :
    WrongSlot(state.present, p, slot) =>
      workflowHistoryReducer(state, AddAction(p, slot, nodeType)) = state

\* C12 as amended: an Insert whose slot does not fit the parent's kind is
\* accepted and recorded like the Insert with the fitting slot: a null slot
\* on a branch parent acts as "true", and any slot on a start or action
\* parent acts as null.
C12_WrongSlotDefaults ==
  \A p \in DOMAIN state.present.nodes, slot \in ConnectionSlots, nodeType \in InsertTypes :
    WrongSlot(state.present, p, slot) =>
      LET wrong == workflowHistoryReducer(state, AddAction(p, slot, nodeType))
          fit   == workflowHistoryReducer(state, AddAction(p, FittingSlot(state.present, p), nodeType))
      IN  /\ wrong = fit
          /\ wrong.past = Append(state.past, state.present)
          /\ createId(idCounter) \in DOMAIN wrong.present.nodes

\* the last edit spliced a node in front of the child in the true exit of a
\* branch node, which is what an Insert with a null slot does there
C12_Witness ==
  /\ Len(state.past) > 0
  /\ LET w == Last(state.past)
     IN  \E p \in DOMAIN w.nodes, kind \in {NODE_TYPES.action, NODE_TYPES.branch} :
           /\ w.nodes[p].type = NODE_TYPES.branch
           /\ w.nodes[p].exits["true"] # Null
           /\ WrongSlot(w, p, SlotNull)
           /\ InsertSplices(w, p, SlotNull, kind, idCounter, state.present)

\* C13: when an Insert, Delete or UpdateLabel changes the workflow, the new
\* history has past = old past with the old present appended, present = the
\* engine's result and future = empty; when the engine returns the same
\* workflow, the history state is returned unchanged.
C13_EditRecording ==
  \A action \in EditActions :
    LET nextPresent == workflowReducer(state.present, action)
        recorded    == workflowHistoryReducer(state, action)
    IN  /\ nextPresent.workflow # state.present =>
             /\ recorded.past = Append(state.past, state.present)
             /\ recorded.present = nextPresent.workflow
             /\ recorded.future = <<>>
        /\ nextPresent.identical => recorded = state

\* the last edit changed the workflow with an older snapshot already in
\* `past`, and a request for an unknown node would now be returned unchanged
C13_Witness ==
  /\ Len(state.past) > 1
  /\ state.future = <<>>
  /\ state.past[1] # Last(state.past)
  /\ Last(state.past) # state.present
  /\ \E action \in EditActions :
       /\ workflowReducer(state.present, action).identical
       /\ workflowHistoryReducer(state, action) = state

Front(s) == SubSeq(s, 1, Len(s) - 1)

\* C14: Undo with empty past and Redo with empty future return the history
\* state unchanged; otherwise Undo makes the last element of past the
\* present, removes it from past and puts the old present at the front of
\* future, and Redo makes the first element of future the present, removes
\* it from future and appends the old present to past. Neither runs the
\* engine: every snapshot of the result is a snapshot of the old history.
C14_UndoRedoSteps ==
  LET undone == workflowHistoryReducer(state, UndoAction)
      redone == workflowHistoryReducer(state, RedoAction)
  IN  /\ state.past = <<>> => undone = state
      /\ state.future = <<>> => redone = state
      /\ state.past # <<>> =>
           /\ undone.present = Last(state.past)
           /\ undone.past = Front(state.past)
           /\ undone.future = <<state.present>> \o state.future
      /\ state.future # <<>> =>
           /\ redone.present = state.future[1]
           /\ redone.future = Tail(state.future)
           /\ redone.past = Append(state.past, state.present)
      /\ Snapshots(undone) = Snapshots(state)
      /\ Snapshots(redone) = Snapshots(state)

\* one of two edits has been undone: past and future both hold a snapshot,
\* and the three snapshots differ
C14_Witness ==
  /\ Len(state.past) > 0
  /\ Len(state.future) > 0
  /\ Last(state.past) # state.present
  /\ state.future[1] # state.present
  /\ state.future[1] # Last(state.past)

StartNodes(w) == {id \in DOMAIN w.nodes : w.nodes[id].type = NODE_TYPES.start}

\* C15: in every snapshot reachable by Insert (action, branch, end), Delete,
\* UpdateLabel, Undo and Redo, exactly one node has kind start, its id is
\* rootId, its parentId is null, and rootId is that of the initial workflow.
C15_SingleLockedStart ==
  \A w \in Snapshots(state) :
    /\ StartNodes(w) = {w.rootId}
    /\ w.nodes[w.rootId].parentId = Null
    /\ w.rootId = createInitialWorkflow.rootId

\* the start node has been relabelled and has a successor, an edit has been
\* undone, and a Delete of the start node is returned unchanged
C15_Witness ==
  /\ Len(state.past) > 0
  /\ Len(state.future) > 0
  /\ \E w \in Snapshots(state) :
       /\ w.nodes[w.rootId].label # createInitialWorkflow.nodes[createInitialWorkflow.rootId].label
       /\ w.nodes[w.rootId].children # <<>>
  /\ workflowHistoryReducer(state, DeleteAction(state.present.rootId)) = state


\* C16: in every reachable workflow every end node has no children, every
\* start or action node has at most one child, and every branch node has at
\* most two.
C16_FanOutLimits ==
  \A id \in DOMAIN state.present.nodes :
    LET node == state.present.nodes[id]
    IN  /\ node.type = NODE_TYPES.end => Len(node.children) = 0
        /\ node.type \in {NODE_TYPES.start, NODE_TYPES.action} => Len(node.children) <= 1
        /\ node.type = NODE_TYPES.branch => Len(node.children) <= 2

\* C17: in every workflow reachable by Insert and Delete requests, every
\* non-root node's parentId names a node of `nodes` whose children contain
\* that node's id.
C17_ParentChildConsistency ==
  \A id \in DOMAIN state.present.nodes \ {state.present.rootId} :
    LET parentId == state.present.nodes[id].parentId
    IN  /\ parentId \in DOMAIN state.present.nodes
        /\ id \in SeqToSet(state.present.nodes[parentId].children)

\* C20: in every workflow reachable by Insert and Delete requests, every id
\* in some node's children or in a branch node's exits names a node of
\* `nodes`.
C20_NoDanglingSuccessor ==
  \A id \in DOMAIN state.present.nodes :
    LET node == state.present.nodes[id]
    IN  /\ SeqToSet(node.children) \subseteq DOMAIN state.present.nodes
        /\ node.type = NODE_TYPES.branch =>
             \A key \in SeqToSet(BRANCH_EXIT_KEYS) :
               node.exits[key] # Null => node.exits[key] \in DOMAIN state.present.nodes


\* the last edit deleted a node that had a successor, from under a parent
\* that still has successors
C20_Witness ==
  /\ Len(state.past) > 0
  /\ LET w == Last(state.past)
     IN  \E d \in DOMAIN w.nodes \ DOMAIN state.present.nodes :
           /\ w.nodes[d].children # <<>>
           /\ w.nodes[d].parentId \in DOMAIN state.present.nodes
           /\ state.present.nodes[w.nodes[d].parentId].children # <<>>
           /\ state.present = workflowReducer(w, DeleteAction(d)).workflow

\* C18: when Insert creates an end node N at a slot of parent P that already
\* points at child C, the parent's slot points at N, N has no successor, C's
\* subtree is not attached to N, and no node of C's subtree remains in
\* `nodes` after the insert.
C18_EndInsertExcisesSubtree ==
  \A p \in DOMAIN state.present.nodes, slot \in ConnectionSlots :
    LET w == state.present
        P == w.nodes[p]
        C == getOutgoingChildId(P, slot)
        N == createId(idCounter)
        v == workflowReducer(w, AddAction(p, slot, NODE_TYPES.end)).workflow
    IN  (P.type # NODE_TYPES.end /\ C # Null) =>
          /\ getOutgoingChildId(v.nodes[p], slot) = N
          /\ v.nodes[N].children = <<>>
          /\ collectSubtreeIds(w, C) \cap Descendants(v, N) = {}
          /\ collectSubtreeIds(w, C) \cap DOMAIN v.nodes = {}

\* the key press e is Ctrl+Z, or Cmd+Z on macOS
UndoChord(e, isMac) ==
  /\ e.key = "z" /\ ~e.shiftKey
  /\ IF isMac THEN e.metaKey /\ ~e.ctrlKey ELSE e.ctrlKey /\ ~e.metaKey

\* the key press e is Ctrl+Y or Ctrl+Shift+Z, with Cmd for Ctrl on macOS
RedoChord(e, isMac) ==
  /\ (e.key = "y" /\ ~e.shiftKey) \/ (e.key = "Z" /\ e.shiftKey)
  /\ IF isMac THEN e.metaKey /\ ~e.ctrlKey ELSE e.ctrlKey /\ ~e.metaKey

\* C19: whenever canUndo is true a Ctrl+Z (Cmd+Z on macOS) key press
\* performs one Undo, and whenever canRedo is true Ctrl+Y or Ctrl+Shift+Z
\* performs one Redo, whether the add-node menu is open or closed.
C19_KeyboardUndoRedo ==
  \A e \in KeyEvents, isMac \in BOOLEAN :
    LET api     == useWorkflowState(state)
        handled == onKeyDown(menu, api, e, isMac)
    IN  /\ (UndoChord(e, isMac) /\ api.canUndo) =>
             DispatchAll(state, handled.requests) = workflowHistoryReducer(state, UndoAction)
        /\ (RedoChord(e, isMac) /\ api.canRedo) =>
             DispatchAll(state, handled.requests) = workflowHistoryReducer(state, RedoAction)


\* node id of workflow v is node id of workflow w but for its label
SameButLabel(w, v, id) ==
  /\ v.nodes[id].id = w.nodes[id].id
  /\ v.nodes[id].type = w.nodes[id].type
  /\ v.nodes[id].parentId = w.nodes[id].parentId
  /\ v.nodes[id].children = w.nodes[id].children
  /\ DOMAIN v.nodes[id] = DOMAIN w.nodes[id]
  /\ w.nodes[id].type = NODE_TYPES.branch => v.nodes[id].exits = w.nodes[id].exits

\* C21: UpdateLabel on an existing node with a label that is non-empty after
\* trimming sets that node's label to the trimmed text and leaves rootId,
\* the set of node ids, every node's kind, parentId, children and exits, and
\* the labels of all other nodes unchanged.
C21_LabelUpdateFrame ==
  \A nodeId \in DOMAIN state.present.nodes, label \in LabelInputs :
    Trim(label) # <<>> =>
      LET w == state.present
          v == workflowReducer(w, LabelAction(nodeId, label)).workflow
      IN  /\ v.nodes[nodeId].label = Trim(label)
          /\ v.rootId = w.rootId
          /\ DOMAIN v.nodes = DOMAIN w.nodes
          /\ \A id \in DOMAIN w.nodes : SameButLabel(w, v, id)
          /\ \A id \in DOMAIN w.nodes \ {nodeId} : v.nodes[id].label = w.nodes[id].label

\* the last edit relabelled one of several nodes with a padded label
C21_Witness ==
  /\ Len(state.past) > 0
  /\ LET w == Last(state.past)
     IN  \E nodeId \in DOMAIN w.nodes :
           /\ Cardinality(DOMAIN w.nodes) > 1
           /\ w.nodes[nodeId].label # <<"x">>
           /\ state.present = workflowReducer(w, LabelAction(nodeId, <<" ", "x", " ">>)).workflow
           /\ state.present.nodes[nodeId].label = <<"x">>


\* the workflow Delete(nodeId) returns for w
AfterDelete(w, nodeId) == workflowReducer(w, DeleteAction(nodeId)).workflow

\* a and b are different nodes of w, neither an ancestor of the other
Unrelated(w, a, b) ==
  /\ a # b
  /\ a \notin Descendants(w, b)
  /\ b \notin Descendants(w, a)

Deletable(w, id) == id \in DOMAIN w.nodes /\ ~NoDeleteTarget(w, id)

\* C22: for any valid tree workflow and any two deletable nodes a and b,
\* neither an ancestor of the other, Delete(a) followed by Delete(b) yields
\* the same workflow as Delete(b) followed by Delete(a).
C22_DeleteCommutes ==
  ValidTree(state.present) =>
    \A a, b \in DOMAIN state.present.nodes :
      (Deletable(state.present, a) /\ Deletable(state.present, b) /\ Unrelated(state.present, a, b)) =>
        AfterDelete(AfterDelete(state.present, a), b) = AfterDelete(AfterDelete(state.present, b), a)

\* the last edit deleted one of the two exit nodes of a branch node in a
\* valid tree, and the node in the other exit can still be deleted
C22_Witness ==
  /\ Len(state.past) > 0
  /\ LET w == Last(state.past)
     IN  /\ ValidTree(w)
         /\ \E a, b \in DOMAIN w.nodes :
              /\ Deletable(w, a) /\ Deletable(w, b) /\ Unrelated(w, a, b)
              /\ w.nodes[a].parentId = w.nodes[b].parentId
              /\ state.present = AfterDelete(w, a)
              /\ Deletable(state.present, b)
              /\ AfterDelete(state.present, b) = AfterDelete(AfterDelete(w, b), a)


\* C23: in every workflow reachable by Insert and Delete requests, whenever
\* Delete proceeds on a node whose parent is a branch node, that parent's
\* true or false exit is the deleted node's id: the slot lookup never falls
\* back to "true" and never overwrites an exit that points at another node.
C23_SlotFallbackUnused ==
  \A nodeId \in DOMAIN state.present.nodes :
    Deletable(state.present, nodeId) =>
      LET parent == state.present.nodes[state.present.nodes[nodeId].parentId]
      IN  parent.type = NODE_TYPES.branch =>
            /\ parent.exits["true"] = nodeId \/ parent.exits["false"] = nodeId
            /\ parent.exits[findSlotForChild(parent, nodeId)] = nodeId

\* the last edit deleted the node in the false exit of a branch node whose
\* true exit is taken as well
C23_Witness ==
  /\ Len(state.past) > 0
  /\ LET w == Last(state.past)
     IN  \E d \in DOMAIN w.nodes :
           /\ Deletable(w, d)
           /\ w.nodes[w.nodes[d].parentId].type = NODE_TYPES.branch
           /\ w.nodes[w.nodes[d].parentId].exits["false"] = d
           /\ w.nodes[w.nodes[d].parentId].exits["true"] # Null
           /\ findSlotForChild(w.nodes[w.nodes[d].parentId], d) = "false"
           /\ state.present = AfterDelete(w, d)


OtherExit(key) == IF key = "true" THEN "false" ELSE "true"

\* Delete(d) on w, where d is in exit `key` of its branch parent, puts the
\* reconnect target (or nothing) into that exit and leaves the other exit
\* and every node of the other exit's subtree as they were
TouchesOwnExitOnly(w, d, key) ==
  LET p     == w.nodes[d].parentId
      other == w.nodes[p].exits[OtherExit(key)]
      v     == AfterDelete(w, d)
  IN  /\ v.nodes[p].exits[key] = preferredReconnectChildId(w.nodes[d])
      /\ v.nodes[p].exits[OtherExit(key)] = other
      /\ other # Null =>
           \A id \in Descendants(w, other) :
             id \in DOMAIN v.nodes /\ v.nodes[id] = w.nodes[id]

\* C24: when the deleted node is the false exit of a branch parent, the
\* parent's false exit becomes the reconnect target (or absent) and its true
\* exit is unchanged; symmetrically for a node in the true exit, the false
\* exit and its whole subtree are unchanged.
C24_BranchDeleteOwnSlot ==
  \A d \in DOMAIN state.present.nodes, key \in SeqToSet(BRANCH_EXIT_KEYS) :
    (/\ Deletable(state.present, d)
     /\ state.present.nodes[state.present.nodes[d].parentId].type = NODE_TYPES.branch
     /\ state.present.nodes[state.present.nodes[d].parentId].exits[key] = d) =>
      TouchesOwnExitOnly(state.present, d, key)

\* the last edit deleted the node in the true exit of a branch node whose
\* false exit is taken, and the false exit still names the same node
C24_Witness ==
  /\ Len(state.past) > 0
  /\ LET w == Last(state.past)
     IN  \E d \in DOMAIN w.nodes :
           /\ Deletable(w, d)
           /\ w.nodes[w.nodes[d].parentId].type = NODE_TYPES.branch
           /\ w.nodes[w.nodes[d].parentId].exits["true"] = d
           /\ w.nodes[w.nodes[d].parentId].exits["false"] # Null
           /\ state.present = AfterDelete(w, d)
           /\ state.present.nodes[w.nodes[d].parentId].exits["false"] =
                w.nodes[w.nodes[d].parentId].exits["false"]


\* past ++ [present] ++ future
Timeline(st) == st.past \o <<st.present>> \o st.future

\* C25: for every reachable history state, past ++ [present] ++ future is
\* the same before and after an Undo or a Redo; Undo followed by Redo, and
\* Redo followed by Undo, each return the same history state when both
\* steps are enabled.
C25_UndoRedoCursor ==
  LET undone == workflowHistoryReducer(state, UndoAction)
      redone == workflowHistoryReducer(state, RedoAction)
  IN  /\ Timeline(undone) = Timeline(state)
      /\ Timeline(redone) = Timeline(state)
      /\ useWorkflowState(state).canUndo =>
           /\ useWorkflowState(undone).canRedo
           /\ workflowHistoryReducer(undone, RedoAction) = state
      /\ useWorkflowState(state).canRedo =>
           /\ useWorkflowState(redone).canUndo
           /\ workflowHistoryReducer(redone, UndoAction) = state

\* two edits have been undone: the redo stack holds two different snapshots
C25_Witness ==
  /\ Len(state.future) > 1
  /\ state.future[1] # state.future[2]
  /\ state.future[1] # state.present
  /\ Timeline(workflowHistoryReducer(state, RedoAction)) = Timeline(state)


\* the history state after n Undo requests
RECURSIVE UndoTimes(_, _)
UndoTimes(st, n) == IF n = 0 THEN st ELSE UndoTimes(workflowHistoryReducer(st, UndoAction), n - 1)

\* C26: in every reachable history state the first element of
\* past ++ [present] is the initial single-start workflow, and Undo issued
\* repeatedly reaches, after exactly |past| steps, a state with empty past
\* (canUndo false) whose present is that initial workflow.
C26_UndoToInitial ==
  /\ (state.past \o <<state.present>>)[1] = createInitialWorkflow
  /\ \A n \in 0..(Len(state.past) - 1) : useWorkflowState(UndoTimes(state, n)).canUndo
  /\ LET oldest == UndoTimes(state, Len(state.past))
     IN  /\ oldest.past = <<>>
         /\ ~useWorkflowState(oldest).canUndo
         /\ oldest.present = createInitialWorkflow

\* two accepted edits lie between the initial workflow and the present
C26_Witness ==
  /\ Len(state.past) > 1
  /\ state.present # createInitialWorkflow
  /\ state.past[2] # createInitialWorkflow
  /\ state.past[2] # state.present
  /\ UndoTimes(state, 2).present = createInitialWorkflow


\* C27: every accepted Insert adds exactly one node id to `nodes`, an id not
\* present before, and removes none; every accepted Delete removes at least
\* the named node and adds none; UpdateLabel leaves the id set unchanged.
C27_NodeCountEffect ==
  \A action \in EditActions :
    LET before == DOMAIN state.present.nodes
        after  == DOMAIN workflowReducer(state.present, action).workflow.nodes
    IN  /\ (action.type = ACTION_TYPES.ADD_NODE /\ Accepted(state, action)) =>
             /\ before \subseteq after
             /\ Cardinality(after \ before) = 1
        /\ (action.type = ACTION_TYPES.DELETE_NODE /\ Accepted(state, action)) =>
             /\ after \subseteq before
             /\ action.nodeId \in before \ after
        /\ action.type = ACTION_TYPES.UPDATE_NODE_LABEL => after = before

\* an accepted Insert was followed by an accepted Delete
C27_Witness ==
  /\ Len(state.past) > 1
  /\ \E n \in 1..idCounter :
       /\ n \notin DOMAIN state.past[1].nodes
       /\ DOMAIN state.past[2].nodes = DOMAIN state.past[1].nodes \cup {n}
  /\ DOMAIN state.present.nodes \subseteq DOMAIN state.past[2].nodes
  /\ DOMAIN state.present.nodes # DOMAIN state.past[2].nodes

\* the requests a commit of draft over the label value of node nodeId is to
\* dispatch: one UpdateLabel when the trimmed draft is non-empty and differs
\* from the label, none otherwise
CommitRequests(nodeId, draft, value) ==
  IF Trim(draft) # <<>> /\ Trim(draft) # value
  THEN <<LabelAction(nodeId, Trim(draft))>>
  ELSE <<>>

\* C28: from the non-editing state a double click enters editing; Enter or
\* blur commits and Escape cancels; a commit dispatches exactly one
\* UpdateLabel only when the trimmed draft is non-empty and differs from the
\* current label; a cancel or an empty or unchanged commit dispatches
\* nothing, so no history entry is created; each of the three exits returns
\* the editor to the non-editing state.
C28_EditorProtocol ==
  /\ ~editor.editing =>
       \A nodeId \in RenderedIds(state.present) : onDoubleClick(state, nodeId).editing
  /\ editor.editing =>
       LET value   == EditorValue(state, editor.nodeId)
           entered == onInputKeyDown(editor, value, "Enter")
           blurred == commit(editor, value)
           escaped == onInputKeyDown(editor, value, "Escape")
       IN  /\ entered.requests = CommitRequests(editor.nodeId, editor.draft, value)
           /\ blurred.requests = CommitRequests(editor.nodeId, editor.draft, value)
           /\ escaped.requests = <<>>
           /\ DispatchAll(state, escaped.requests) = state
           /\ \A exit \in {entered, blurred, escaped} :
                /\ ~exit.editor.editing
                /\ Len(exit.requests) <= 1
                /\ Len(DispatchAll(state, exit.requests).past) = Len(state.past) + Len(exit.requests)

\* a label has been changed through the editor, and the editor is open again
\* with a draft that is that label with blanks around it
C28_Witness ==
  /\ editor.editing
  /\ Len(state.past) > 0
  /\ EditorValue(state, editor.nodeId) = <<"x">>
  /\ Last(state.past).nodes[editor.nodeId].label # <<"x">>
  /\ editor.draft = <<" ", "x", " ">>
  /\ commit(editor, <<"x">>).requests = <<>>

====
